---- MODULE Spec2Model ----
(***************************************************************************)
(* gcsls: list the objects of a Google Cloud Storage bucket whose names    *)
(* match a glob pattern (src/main.go).                                     *)
(*                                                                         *)
(* A Go string is a sequence of one-character strings.  The literal pieces *)
(* of a Printf format are kept as single tokens of a printed line, the %s  *)
(* arguments are spliced in character by character.                        *)
(*                                                                         *)
(* The program is one run of main: argument check, path parsing, client    *)
(* creation, the prefix query, and the it.Next() loop.  The storage        *)
(* service and the doublestar matcher are libraries that main.go calls;    *)
(* they are modelled by their documented behaviour at the call sites.      *)
(***************************************************************************)
EXTENDS Naturals, Sequences, FiniteSets

\* ------------------------------------------------------------------ bounds
MaxPatLen == 3
MaxObjects == 2
MaxTailLen == 2

\* ------------------------------------------------------- package "strings"
StrsUpTo(A, n) == UNION {[1..k -> A] : k \in 0..n}

DropFirst(s, k) == SubSeq(s, k + 1, Len(s))

\* strings.HasPrefix(s, prefix)
HasPrefix(s, pre) ==
    /\ Len(s) >= Len(pre)
    /\ \A i \in 1..Len(pre) : s[i] = pre[i]

\* strings.TrimPrefix(s, prefix)
TrimPrefix(s, pre) == IF HasPrefix(s, pre) THEN DropFirst(s, Len(pre)) ELSE s

\* strings.IndexAny(s, chars): the 1-based index of the first character of s
\* that is in chars, 0 when there is none (Go: 0-based, -1).
IndexAny(s, chars) ==
    IF \E i \in 1..Len(s) : s[i] \in chars
    THEN CHOOSE i \in 1..Len(s) :
             /\ s[i] \in chars
             /\ \A j \in 1..(i - 1) : s[j] \notin chars
    ELSE 0

\* strings.SplitN(s, sep, 2) for a one-character sep: at most two parts, cut
\* at the first sep.
SplitN2(s, sep) ==
    LET i == IndexAny(s, {sep})
    IN  IF i = 0 THEN <<s>>
        ELSE <<SubSeq(s, 1, i - 1), DropFirst(s, i)>>

\* --------------------------------------------------- getPrefixFromPattern
Wildcards == {"*", "?", "["}

getPrefixFromPattern_NoBracket(pattern) ==
    LET wildcardIndex == IndexAny(pattern, {"*", "?"})
    IN  IF wildcardIndex = 0 THEN pattern
        ELSE SubSeq(pattern, 1, wildcardIndex - 1)

getPrefixFromPattern(pattern) ==
    LET wildcardIndex == IndexAny(pattern, Wildcards)
    IN  IF wildcardIndex = 0 THEN pattern
        ELSE SubSeq(pattern, 1, wildcardIndex - 1)

\* -------------------------------------------------------- doublestar.Match
\* The call doublestar.Match(objectPattern, attrs.Name) of main.go: '*' and
\* '?' stay inside one path segment, a "**" that is a whole segment crosses
\* segments (zero or more of them), "[...]" is a character class ('!' or '^'
\* negate it), "{a,b}" lists alternatives, and a backslash escapes the next
\* character.  A malformed pattern gives ErrBadPattern for every name.
\* Character ranges ("a-z") are not modelled: '-' is an ordinary character
\* here and no pattern of the model contains it.
Separator == "/"

\* Index of the unescaped ']' that closes a class whose members start at i; 0
\* when there is none.
RECURSIVE ClassEnd(_, _)
ClassEnd(p, i) ==
    IF i > Len(p) THEN 0
    ELSE IF p[i] = "]" THEN i
    ELSE IF p[i] = "\\" THEN (IF i + 1 > Len(p) THEN 0 ELSE ClassEnd(p, i + 2))
    ELSE ClassEnd(p, i + 1)

\* The members of the class between i and the closing ']' at e.
RECURSIVE ClassMembers(_, _, _)
ClassMembers(p, i, e) ==
    IF i >= e THEN {}
    ELSE IF p[i] = "\\" THEN {p[i + 1]} \cup ClassMembers(p, i + 2, e)
    ELSE {p[i]} \cup ClassMembers(p, i + 1, e)

\* For a pattern that starts with '[': where the members start.
ClassStart(p) == IF Len(p) >= 2 /\ p[2] \in {"!", "^"} THEN 3 ELSE 2

\* Index of the '}' that closes the '{' before position i (depth counts the
\* nested '{'); 0 when there is none.
RECURSIVE ClosingAlt(_, _, _)
ClosingAlt(p, i, depth) ==
    IF i > Len(p) THEN 0
    ELSE IF p[i] = "\\" THEN ClosingAlt(p, i + 2, depth)
    ELSE IF p[i] = "{" THEN ClosingAlt(p, i + 1, depth + 1)
    ELSE IF p[i] = "}" THEN (IF depth = 0 THEN i ELSE ClosingAlt(p, i + 1, depth - 1))
    ELSE ClosingAlt(p, i + 1, depth)

\* Index of the next ',' at nesting depth 0 in i..(e - 1); 0 when there is none.
RECURSIVE NextAlt(_, _, _, _)
NextAlt(p, i, e, depth) ==
    IF i >= e THEN 0
    ELSE IF p[i] = "\\" THEN NextAlt(p, i + 2, e, depth)
    ELSE IF p[i] = "{" THEN NextAlt(p, i + 1, e, depth + 1)
    ELSE IF p[i] = "}" THEN NextAlt(p, i + 1, e, depth - 1)
    ELSE IF p[i] = "," /\ depth = 0 THEN i
    ELSE NextAlt(p, i + 1, e, depth)

\* The alternatives of the brace group whose content is i..(e - 1).
RECURSIVE Alternatives(_, _, _)
Alternatives(p, i, e) ==
    LET c == NextAlt(p, i, e, 0)
    IN  IF c = 0 THEN {SubSeq(p, i, e - 1)}
        ELSE {SubSeq(p, i, c - 1)} \cup Alternatives(p, c + 1, e)

\* doublestar.ValidatePattern
RECURSIVE ValidatePattern(_)
ValidatePattern(p) ==
    IF p = <<>> THEN TRUE
    ELSE IF p[1] = "\\" THEN Len(p) >= 2 /\ ValidatePattern(DropFirst(p, 2))
    ELSE IF p[1] = "[" THEN
        LET s == ClassStart(p)
            e == ClassEnd(p, s)
        IN  /\ e > s
            /\ ValidatePattern(DropFirst(p, e))
    ELSE IF p[1] = "{" THEN
        LET e == ClosingAlt(p, 2, 0)
        IN  /\ e # 0
            /\ \A alt \in Alternatives(p, 2, e) : ValidatePattern(alt)
            /\ ValidatePattern(DropFirst(p, e))
    ELSE ValidatePattern(DropFirst(p, 1))

\* What is left of a pattern when the name is used up: it matches when it can
\* match the empty string.  "a/**" matches "a".
RECURSIVE IsZeroLengthPattern(_)
IsZeroLengthPattern(p) ==
    \/ p \in {<<>>, <<"*">>, <<"*", "*">>, <<"/", "*", "*">>,
              <<"*", "*", "/">>, <<"/", "*", "*", "/">>}
    \/ /\ p # <<>>
       /\ p[1] = "{"
       /\ LET e == ClosingAlt(p, 2, 0)
          IN  \E alt \in Alternatives(p, 2, e) :
                  IsZeroLengthPattern(alt \o DropFirst(p, e))

\* Whether the valid pattern p matches the name n; sos: p starts a segment.
RECURSIVE DoMatch(_, _, _)
DoMatch(p, n, sos) ==
    IF n = <<>> THEN IsZeroLengthPattern(p)
    ELSE IF p = <<>> THEN FALSE
    ELSE IF p[1] = "*" THEN
        LET double == Len(p) >= 2 /\ p[2] = "*"
            rest   == IF double THEN DropFirst(p, 2) ELSE DropFirst(p, 1)
        IN  IF double /\ sos /\ rest = <<>> THEN TRUE
            ELSE IF double /\ sos /\ rest[1] = Separator THEN
                LET r == DropFirst(rest, 1)
                IN  \/ DoMatch(r, n, TRUE)
                    \/ \E i \in 1..Len(n) :
                           /\ n[i] = Separator
                           /\ DoMatch(r, DropFirst(n, i), TRUE)
            ELSE \E k \in 0..Len(n) :
                     /\ \A j \in 1..k : n[j] # Separator
                     /\ DoMatch(rest, DropFirst(n, k), FALSE)
    ELSE IF p[1] = "?" THEN
        /\ n[1] # Separator
        /\ DoMatch(DropFirst(p, 1), DropFirst(n, 1), FALSE)
    ELSE IF p[1] = "[" THEN
        LET s == ClassStart(p)
            e == ClassEnd(p, s)
        IN  /\ (n[1] \in ClassMembers(p, s, e)) # (s = 3)
            /\ DoMatch(DropFirst(p, e), DropFirst(n, 1), FALSE)
    ELSE IF p[1] = "{" THEN
        LET e == ClosingAlt(p, 2, 0)
        IN  \E alt \in Alternatives(p, 2, e) :
                DoMatch(alt \o DropFirst(p, e), n, sos)
    ELSE IF p[1] = "\\" THEN
        /\ p[2] = n[1]
        /\ DoMatch(DropFirst(p, 2), DropFirst(n, 1), p[2] = Separator)
    ELSE
        /\ p[1] = n[1]
        /\ DoMatch(DropFirst(p, 1), DropFirst(n, 1), p[1] = Separator)

\* doublestar.Match(pattern, name): the pair (matched, err).
Match(pattern, name) ==
    IF ValidatePattern(pattern)
    THEN [matched |-> DoMatch(pattern, name, TRUE), err |-> FALSE]
    ELSE [matched |-> FALSE, err |-> TRUE]

\* ------------------------------------------------------------------ inputs
GsScheme == <<"g", "s", ":", "/", "/">>

HelpFlags == {<<"-", "h">>, <<"-", "-", "h", "e", "l", "p">>}

\* Paths around the scheme check and the bucket check: every leading part of
\* "gs://" followed by a short tail, and another scheme.
RawPaths ==
    {SubSeq(GsScheme, 1, k) \o t :
        k \in 0..Len(GsScheme), t \in StrsUpTo({"b", "/"}, MaxTailLen)}
    \cup {<<"s", "3", ":", "/", "/", "b">>, <<"/">> \o GsScheme \o <<"b">>}

PatAlphabet == {"a", "/", "*", "?", "[", "]", "\\"}

ExamplePatterns ==
    { <<"*", ".", "c", "s", "v">>,
      <<"*", "*", "/", "*", ".", "c", "s", "v">>,
      <<"l", "o", "g", "s", "/", "*", "*", "/", "*", ".", "t", "x", "t">>,
      <<"a", "/", "*", "*">>,
      <<"{", "a", ",", "b", "}">>,
      <<"[", "!", "a", "]">>,
      <<"b", "/", "c", ".", "t", "x", "t">> }

Patterns == StrsUpTo(PatAlphabet, MaxPatLen) \cup ExamplePatterns

PatternPaths == {GsScheme \o <<"b", "/">> \o p : p \in Patterns}

ArgLists ==
    {<<>>}
    \cup {<<h>> : h \in HelpFlags}
    \cup {<<p>> : p \in RawPaths \cup PatternPaths}
    \cup {<<<<"-", "h">>, GsScheme \o <<"b">>>>}

\* The object names a bucket may hold, in the order the service lists them.
KeyUniverse ==
    << <<"a">>, <<"a", "/", "a">>, <<"a", "/", "b", "/", "a">>,
       <<"a", "a">>, <<"b">> >>

ExampleBucket ==
    << <<"a", ".", "c", "s", "v">>,
       <<"b", "/", "a", ".", "c", "s", "v">>,
       <<"b", "/", "c", ".", "t", "x", "t">> >>

\* The members of KeyUniverse at the indices I, in listing order.
RECURSIVE Pick(_, _)
Pick(I, from) ==
    IF from > Len(KeyUniverse) THEN <<>>
    ELSE IF from \in I THEN <<KeyUniverse[from]>> \o Pick(I, from + 1)
    ELSE Pick(I, from + 1)

Buckets ==
    {Pick(I, 1) : I \in {J \in SUBSET (1..Len(KeyUniverse)) : Cardinality(J) <= MaxObjects}}
    \cup {ExampleBucket}

\* ------------------------------------------------------------------- state
VARIABLES
    args,           \* os.Args[1:]
    objects,        \* the object names of any bucket, in listing order
    pc,             \* "main" | "newClient" | "iterate" | "exit"
    gcsPath, bucketName, objectPattern, prefix,
    it,             \* the iterator: how many candidates it.Next() has returned
    found,
    stdout, stderr, \* the lines written so far
    err,            \* the error listObjectsWithWildcard returned ("" is nil)
    exitCode

vars == <<args, objects, pc, gcsPath, bucketName, objectPattern, prefix, it,
          found, stdout, stderr, err, exitCode>>

ErrNoScheme == "invalid GCS path: must start with gs://"
ErrNoBucket == "invalid GCS path: bucket name is missing"
ErrClient   == "failed to create GCS client"
ErrIterate  == "failed to iterate objects"
ErrPattern  == "invalid glob pattern"

HelpLine    == <<"gcsls - List Google Cloud Storage objects with wildcard support">>
UsageLine   == <<"Usage: gcsls \"gs://bucket/object-pattern\"">>
NoMatchLine == <<"No objects found matching the pattern.">>
HeaderLine(bucket, pattern) ==
    <<"Listing objects in gs://">> \o bucket \o <<" matching pattern: ">> \o pattern
MatchLine(bucket, name) == <<"gs://">> \o bucket \o <<"/">> \o name
FatalLine(e) == <<"Failed to list objects: ", e>>

\* bucket.Objects(ctx, &storage.Query{Prefix: prefix}): the names that start
\* with the prefix, in listing order.
Objects(prefix_) == SelectSeq(objects, LAMBDA k : HasPrefix(k, prefix_))

Init ==
    /\ args \in ArgLists
    /\ objects \in Buckets
    /\ pc = "main"
    /\ gcsPath = <<>>
    /\ bucketName = <<>>
    /\ objectPattern = <<>>
    /\ prefix = <<>>
    /\ it = 0
    /\ found = FALSE
    /\ stdout = <<>>
    /\ stderr = <<>>
    /\ err = ""
    /\ exitCode = 0

\* log.Fatalf("Failed to list objects: %v", err): the message, exit status 1.
Fatal(e) ==
    /\ err' = e
    /\ stderr' = Append(stderr, FatalLine(e))
    /\ exitCode' = 1
    /\ pc' = "exit"

\* ------------------------------------------------------------------- main
ShowHelp ==
    /\ pc = "main"
    /\ Len(args) = 1 /\ args[1] \in HelpFlags
    /\ stdout' = Append(stdout, HelpLine)
    /\ exitCode' = 0
    /\ pc' = "exit"
    /\ UNCHANGED <<args, objects, gcsPath, bucketName, objectPattern, prefix,
                   it, found, stderr, err>>

Usage ==
    /\ pc = "main"
    /\ ~(Len(args) = 1 /\ args[1] \in HelpFlags)
    /\ Len(args) # 1
    /\ stderr' = Append(stderr, UsageLine)
    /\ exitCode' = 1
    /\ pc' = "exit"
    /\ UNCHANGED <<args, objects, gcsPath, bucketName, objectPattern, prefix,
                   it, found, stdout, err>>

\* listObjectsWithWildcard, step 1: the parts of the path, or the error.
ParsePath_NoBucketCheck(path) ==
    IF ~HasPrefix(path, GsScheme) THEN [err |-> ErrNoScheme]
    ELSE
        LET parts == SplitN2(TrimPrefix(path, GsScheme), "/")
            pat   == IF Len(parts) > 1 THEN parts[2] ELSE <<>>
        IN  [err |-> "", bucketName |-> parts[1],
             objectPattern |-> IF pat = <<>> THEN <<"*", "*">> ELSE pat]

ParsePath_NoRewrite(path) ==
    IF ~HasPrefix(path, GsScheme) THEN [err |-> ErrNoScheme]
    ELSE
        LET parts == SplitN2(TrimPrefix(path, GsScheme), "/")
        IN  IF Len(parts) = 0 \/ parts[1] = <<>> THEN [err |-> ErrNoBucket]
            ELSE [err |-> "", bucketName |-> parts[1],
                  objectPattern |-> IF Len(parts) > 1 THEN parts[2] ELSE <<>>]

ParsePath(path) ==
    IF ~HasPrefix(path, GsScheme) THEN [err |-> ErrNoScheme]
    ELSE
        LET parts == SplitN2(TrimPrefix(path, GsScheme), "/")
            pat   == IF Len(parts) > 1 THEN parts[2] ELSE <<>>
        IN  IF Len(parts) = 0 \/ parts[1] = <<>> THEN [err |-> ErrNoBucket]
            ELSE [err |-> "", bucketName |-> parts[1],
                  objectPattern |-> IF pat = <<>> THEN <<"*", "*">> ELSE pat]

\* main with one argument that is no help flag, up to the call of
\* storage.NewClient.
RunPath ==
    /\ pc = "main"
    /\ Len(args) = 1 /\ args[1] \notin HelpFlags
    /\ gcsPath' = args[1]
    /\ LET r == ParsePath(args[1])
       IN  IF r.err # ""
           THEN /\ Fatal(r.err)
                /\ UNCHANGED <<bucketName, objectPattern>>
           ELSE /\ bucketName' = r.bucketName
                /\ objectPattern' = r.objectPattern
                /\ pc' = "newClient"
                /\ UNCHANGED <<stderr, err, exitCode>>
    /\ UNCHANGED <<args, objects, prefix, it, found, stdout>>

\* ------------------------------------- listObjectsWithWildcard, steps 2-4
NewClientFail ==
    /\ pc = "newClient"
    /\ Fatal(ErrClient)
    /\ UNCHANGED <<args, objects, gcsPath, bucketName, objectPattern, prefix,
                   it, found, stdout>>

\* The client is there: the prefix of the query, the line that announces the
\* listing, and the iterator.
StartListing_NoHeader ==
    /\ pc = "newClient"
    /\ prefix' = getPrefixFromPattern(objectPattern)
    /\ it' = 0
    /\ found' = FALSE
    /\ pc' = "iterate"
    /\ UNCHANGED <<args, objects, gcsPath, bucketName, objectPattern, stdout,
                   stderr, err, exitCode>>

StartListing ==
    /\ pc = "newClient"
    /\ prefix' = getPrefixFromPattern(objectPattern)
    /\ stdout' = Append(stdout, HeaderLine(bucketName, objectPattern))
    /\ it' = 0
    /\ found' = FALSE
    /\ pc' = "iterate"
    /\ UNCHANGED <<args, objects, gcsPath, bucketName, objectPattern, stderr,
                   err, exitCode>>

\* it.Next() returns an error that is not iterator.Done.  A variant: break
\* out of the loop instead of returning the error.
IterError_Break ==
    /\ pc = "iterate"
    /\ err' = ErrIterate
    /\ stdout' = IF ~found THEN Append(stdout, NoMatchLine) ELSE stdout
    /\ exitCode' = 0
    /\ pc' = "exit"
    /\ UNCHANGED <<args, objects, gcsPath, bucketName, objectPattern, prefix,
                   it, found, stderr>>

IterError ==
    /\ pc = "iterate"
    /\ Fatal(ErrIterate)
    /\ UNCHANGED <<args, objects, gcsPath, bucketName, objectPattern, prefix,
                   it, found, stdout>>

\* it.Next() returns the next candidate: match it, print it when it matches.
\* Variants: print without looking at matched; print what does not match.
IterCandidate_PrintAll ==
    /\ pc = "iterate"
    /\ it < Len(Objects(prefix))
    /\ it' = it + 1
    /\ LET name == Objects(prefix)[it + 1]
           m    == Match(objectPattern, name)
       IN  IF m.err
           THEN /\ Fatal(ErrPattern)
                /\ UNCHANGED <<found, stdout>>
           ELSE /\ stdout' = Append(stdout, MatchLine(bucketName, name))
                /\ found' = TRUE
                /\ UNCHANGED <<pc, stderr, err, exitCode>>
    /\ UNCHANGED <<args, objects, gcsPath, bucketName, objectPattern, prefix>>

IterCandidate_PrintUnmatched ==
    /\ pc = "iterate"
    /\ it < Len(Objects(prefix))
    /\ it' = it + 1
    /\ LET name == Objects(prefix)[it + 1]
           m    == Match(objectPattern, name)
       IN  IF m.err
           THEN /\ Fatal(ErrPattern)
                /\ UNCHANGED <<found, stdout>>
           ELSE /\ stdout' = IF ~m.matched
                             THEN Append(stdout, MatchLine(bucketName, name))
                             ELSE stdout
                /\ found' = (found \/ ~m.matched)
                /\ UNCHANGED <<pc, stderr, err, exitCode>>
    /\ UNCHANGED <<args, objects, gcsPath, bucketName, objectPattern, prefix>>

IterCandidate ==
    /\ pc = "iterate"
    /\ it < Len(Objects(prefix))
    /\ it' = it + 1
    /\ LET name == Objects(prefix)[it + 1]
           m    == Match(objectPattern, name)
       IN  IF m.err
           THEN /\ Fatal(ErrPattern)
                /\ UNCHANGED <<found, stdout>>
           ELSE /\ stdout' = IF m.matched
                             THEN Append(stdout, MatchLine(bucketName, name))
                             ELSE stdout
                /\ found' = (found \/ m.matched)
                /\ UNCHANGED <<pc, stderr, err, exitCode>>
    /\ UNCHANGED <<args, objects, gcsPath, bucketName, objectPattern, prefix>>

\* it.Next() returns iterator.Done: leave the loop, report when nothing was
\* found, return nil.  A variant: report whether or not something was found.
IterDone_AlwaysReport ==
    /\ pc = "iterate"
    /\ it = Len(Objects(prefix))
    /\ stdout' = Append(stdout, NoMatchLine)
    /\ exitCode' = 0
    /\ pc' = "exit"
    /\ UNCHANGED <<args, objects, gcsPath, bucketName, objectPattern, prefix,
                   it, found, stderr, err>>

IterDone ==
    /\ pc = "iterate"
    /\ it = Len(Objects(prefix))
    /\ stdout' = IF ~found THEN Append(stdout, NoMatchLine) ELSE stdout
    /\ exitCode' = 0
    /\ pc' = "exit"
    /\ UNCHANGED <<args, objects, gcsPath, bucketName, objectPattern, prefix,
                   it, found, stderr, err>>

Next ==
    \/ ShowHelp
    \/ Usage
    \/ RunPath
    \/ NewClientFail
    \/ StartListing
    \/ IterError
    \/ IterCandidate
    \/ IterDone

Spec == Init /\ [][Next]_vars

\* ---------------------------------------------------------- the properties
\* The run was given one argument that is no help flag: main calls
\* listObjectsWithWildcard.
PathRun == Len(args) = 1 /\ args[1] \notin HelpFlags

\* The error kinds of the messages.
InvalidPath  == {ErrNoScheme, ErrNoBucket}
BackendError == {ErrClient, ErrIterate}
PatternError == {ErrPattern}

\* The listing has started: the path was parsed and the client created.
Started ==
    \/ pc = "iterate"
    \/ pc = "exit" /\ PathRun /\ err \notin InvalidPath \cup {ErrClient}

Ended == pc = "exit" /\ PathRun

Range(s) == {s[i] : i \in 1..Len(s)}

MatchLinesOf(out) == SelectSeq(out, LAMBDA l : l[1] = "gs://")

NoMatchCount(out) == Len(SelectSeq(out, LAMBDA l : l = NoMatchLine))

\* The names among keys that the pattern of the run matches, in order.
KeysMatching(keys) ==
    SelectSeq(keys, LAMBDA k : Match(objectPattern, k).matched)

LinesOf(keys) == [i \in 1..Len(keys) |-> MatchLine(bucketName, keys[i])]

\* "gs://" and then a character that is not '/'.
WellFormedPath(p) ==
    /\ Len(p) >= 6
    /\ SubSeq(p, 1, 5) = <<"g", "s", ":", "/", "/">>
    /\ p[6] # "/"

\* C1: parsing succeeds exactly when the path starts with "gs://" and the
\* text up to the next '/' (or the end) is not empty; every other path ends
\* the run with an invalid-path error and exit status 1, and a parsed path
\* gives that text as the bucket name.
C1_ParseSucceedsIffSchemeAndBucket ==
    (PathRun /\ pc # "main") =>
        /\ (err \notin InvalidPath) <=> WellFormedPath(gcsPath)
        /\ ~WellFormedPath(gcsPath) =>
              /\ pc = "exit" /\ exitCode = 1
              /\ stdout = <<>>
              /\ stderr = <<FatalLine(err)>>
        /\ WellFormedPath(gcsPath) =>
              /\ bucketName # <<>>
              /\ "/" \notin Range(bucketName)
              /\ HasPrefix(gcsPath, <<"g", "s", ":", "/", "/">> \o bucketName)
              /\ LET n == 5 + Len(bucketName)
                 IN  Len(gcsPath) > n => gcsPath[n + 1] = "/"

\* "gs:///b" was rejected for its missing bucket name.
C1_Witness ==
    /\ pc = "exit"
    /\ gcsPath = <<"g", "s", ":", "/", "/", "/", "b">>
    /\ err = ErrNoBucket
    /\ exitCode = 1

\* C2 (as claimed): a run with a malformed pattern whose backend calls all
\* succeed ends with a pattern error and exit status 1, whatever the bucket
\* lists.
C2_InvalidPatternAlwaysFails ==
    (Ended /\ err \notin InvalidPath \cup BackendError
       /\ ~ValidatePattern(objectPattern)) =>
        /\ exitCode = 1
        /\ err \in PatternError

\* C3 (as claimed): a run that ends in an error has printed no match line.
C3_AllOrNothing ==
    (Ended /\ exitCode = 1) => MatchLinesOf(stdout) = <<>>

\* C3 (amended): a run that ends in an error has exit status 1 and has not
\* printed the no-match message; the match lines it printed are those of the
\* matching names among the candidates listed before the error.
C3_ErrorKeepsEarlierMatches ==
    (Ended /\ err # "") =>
        /\ exitCode = 1
        /\ NoMatchCount(stdout) = 0
        /\ MatchLinesOf(stdout) =
               LinesOf(KeysMatching(SubSeq(Objects(prefix), 1, it)))

\* A listing failed after a match line was printed.
C3_Witness ==
    /\ Ended /\ exitCode = 1
    /\ err = ErrIterate
    /\ MatchLinesOf(stdout) # <<>>

\* C4 (as claimed): a successful run prints the names of the whole bucket
\* that match the pattern, as if no prefix had narrowed the listing.
C4_PrefixIsPureOptimization ==
    (Ended /\ exitCode = 0) =>
        MatchLinesOf(stdout) = LinesOf(KeysMatching(objects))

\* One line is a match line of the run: "gs://" bucket "/" name.
IsMatchLine(l) == \E k \in Range(objects) : l = MatchLine(bucketName, k)

\* C5 (as claimed): the standard output of a successful run is the no-match
\* message alone, or match lines and nothing else.
C5_StdoutOnlyMatchesOrNoMatch ==
    (Ended /\ exitCode = 0) =>
        \/ stdout = <<NoMatchLine>>
        \/ /\ stdout # <<>>
           /\ \A i \in 1..Len(stdout) : IsMatchLine(stdout[i])

\* C5 (amended): the standard output of a successful run is the line that
\* announces the listing, and then the no-match message alone, or match lines
\* and nothing else.
C5_StdoutHeaderThenMatchesOrNoMatch ==
    (Ended /\ exitCode = 0) =>
        /\ stdout # <<>>
        /\ stdout[1] = <<"Listing objects in gs://">> \o bucketName
                           \o <<" matching pattern: ">> \o objectPattern
        /\ LET body == Tail(stdout)
           IN  \/ body = <<NoMatchLine>>
               \/ /\ body # <<>>
                  /\ \A i \in 1..Len(body) : IsMatchLine(body[i])

\* A successful run printed the announcement and two match lines.
C5_Witness ==
    /\ Ended /\ exitCode = 0
    /\ Len(stdout) = 3
    /\ Len(MatchLinesOf(stdout)) = 2

LogsPattern ==
    <<"l", "o", "g", "s", "/", "*", "*", "/", "*", ".", "t", "x", "t">>

\* C6: the prefix of the query is the longest leading part of the pattern
\* without '*', '?' or '[': it is a prefix of the pattern, holds none of the
\* three, and ends at the first of them or at the end of the pattern;
\* "logs/**/*.txt" gives "logs/".
C6_PrefixIsLongestLiteralLead ==
    Started =>
        /\ HasPrefix(objectPattern, prefix)
        /\ \A i \in 1..Len(prefix) : prefix[i] \notin {"*", "?", "["}
        /\ Len(prefix) < Len(objectPattern) =>
               objectPattern[Len(prefix) + 1] \in {"*", "?", "["}
        /\ objectPattern = LogsPattern => prefix = <<"l", "o", "g", "s", "/">>

\* The prefix of "a[" (a pattern cut at its '[') was computed.
C6_Witness ==
    /\ Started
    /\ objectPattern = <<"a", "[">>
    /\ prefix = <<"a">>

\* The path names a bucket and no pattern: "gs://bucket" or "gs://bucket/".
NoPatternPath(p) ==
    /\ WellFormedPath(p)
    /\ \A i \in 6..Len(p) : p[i] = "/" => i = Len(p)

\* C7: for a path without a pattern the pattern is "**", the prefix is
\* empty, and every name the bucket lists is printed: while the listing
\* runs, every name listed so far; after a successful run, all of them.
C7_EmptyPatternListsEverything ==
    (PathRun /\ pc # "main" /\ NoPatternPath(gcsPath)) =>
        /\ objectPattern = <<"*", "*">>
        /\ Started =>
              /\ prefix = <<>>
              /\ MatchLinesOf(stdout) = LinesOf(SubSeq(objects, 1, it))
        /\ (pc = "exit" /\ exitCode = 0) =>
              MatchLinesOf(stdout) = LinesOf(objects)

\* "gs://b/" listed a bucket of two objects, one of them nested.
C7_Witness ==
    /\ pc = "exit" /\ exitCode = 0
    /\ gcsPath = <<"g", "s", ":", "/", "/", "b", "/">>
    /\ objects = << <<"a">>, <<"a", "/", "b", "/", "a">> >>
    /\ Len(MatchLinesOf(stdout)) = 2

\* The state once it.Next() has failed.
C8_AfterIterError ==
    err = ErrIterate =>
        /\ pc = "exit" /\ exitCode = 1
        /\ err \in BackendError
        /\ err \notin InvalidPath \cup PatternError
        /\ NoMatchCount(stdout) = 0
        /\ MatchLinesOf(stdout) =
               LinesOf(KeysMatching(SubSeq(Objects(prefix), 1, it)))
        /\ stderr = <<FatalLine(ErrIterate)>>

\* The step in which it.Next() fails, and the steps after it.
C8_IterErrorStep ==
    /\ (err # ErrIterate /\ err' = ErrIterate) =>
           /\ it' = it
           /\ found' = found
           /\ stdout' = stdout
    /\ err = ErrIterate => UNCHANGED vars

\* C8: once it.Next() has failed the run is over with exit status 1 and a
\* backend error, which is neither an invalid-path nor a pattern error; the
\* failing step requests and matches no candidate and prints nothing, and no
\* step follows it.
C8_BackendErrorStopsIteration ==
    /\ [](C8_AfterIterError)
    /\ [][C8_IterErrorStep]_vars

\* The listing failed after it had returned a candidate and before it had
\* returned them all.
C8_Witness ==
    /\ err = ErrIterate
    /\ it >= 1
    /\ it < Len(Objects(prefix))

StarCsv == <<"*", ".", "c", "s", "v">>

\* C9: the match lines of a successful run are the lines of the listed names
\* that match the pattern, each once and in listing order; on the bucket
\* {a.csv, b/a.csv, b/c.txt}, "*.csv" prints a.csv alone and "**/*.csv"
\* prints a.csv and then b/a.csv.
C9_PrintsExactlyTheMatches ==
    (Ended /\ exitCode = 0) =>
        LET printed == MatchLinesOf(stdout)
        IN  /\ printed = LinesOf(KeysMatching(Objects(prefix)))
            /\ \A i, j \in 1..Len(printed) : printed[i] = printed[j] => i = j
            /\ (objects = ExampleBucket /\ objectPattern = StarCsv) =>
                   printed = <<MatchLine(bucketName, ExampleBucket[1])>>
            /\ (objects = ExampleBucket
                  /\ objectPattern = <<"*", "*", "/">> \o StarCsv) =>
                   printed = <<MatchLine(bucketName, ExampleBucket[1]),
                               MatchLine(bucketName, ExampleBucket[2])>>

\* "**/*.csv" was run on the example bucket.
C9_Witness ==
    /\ Ended /\ exitCode = 0
    /\ objects = ExampleBucket
    /\ objectPattern = <<"*", "*", "/">> \o StarCsv
    /\ Len(stdout) = 3

\* The three ways a run that passed parsing ends.
ExhaustedWithMatch ==
    /\ exitCode = 0 /\ err = ""
    /\ it = Len(Objects(prefix))
    /\ Len(MatchLinesOf(stdout)) >= 1

ExhaustedNoMatch ==
    /\ exitCode = 0 /\ err = ""
    /\ it = Len(Objects(prefix))
    /\ Len(MatchLinesOf(stdout)) = 0

Aborted == exitCode = 1 /\ err # ""

\* C10: a run that passed parsing ends exhausted with a match, exhausted
\* without one, or aborted; the no-match message is printed exactly in the
\* runs that end exhausted without a match, once, with exit status 0, and
\* never beside a match line.
C10_TerminalStatesAndNoMatchMessage ==
    /\ (Ended /\ err \notin InvalidPath) =>
           /\ ExhaustedWithMatch \/ ExhaustedNoMatch \/ Aborted
           /\ ExhaustedNoMatch <=> NoMatchCount(stdout) = 1
    /\ NoMatchCount(stdout) <= 1
    /\ NoMatchCount(stdout) = 1 =>
           /\ Ended /\ exitCode = 0
           /\ MatchLinesOf(stdout) = <<>>

\* A listing that returned candidates ended with the no-match message.
C10_Witness ==
    /\ Ended /\ exitCode = 0
    /\ it >= 1
    /\ stdout = <<HeaderLine(bucketName, objectPattern), NoMatchLine>>

====
